---- MODULE Spec2Model ----
(***************************************************************************)
(* A model of local.js, the expansion engine of openapi-codegen: main()    *)
(* builds the rendering model through adaptor.transform, registers helpers *)
(* and partials, prepares the output directory (mkdirp, rimraf) and, in    *)
(* the rimraf callback, renders the whole-output transformations, the      *)
(* touch list, the LICENSE and the perApi / perPath / perModel /           *)
(* perOperation fan-out passes, and finally calls the completion callback. *)
(* Spec is one call of main; SpecRuns is a process that calls main several *)
(* times, the output directory and the Handlebars registry persisting.     *)
(*                                                                         *)
(* Strings are sequences of tokens, so that concatenation, path.join and   *)
(* path.dirname are computed.  A JavaScript object is a record             *)
(*   [scal, apiInfo, models, operations]                                   *)
(* where scal maps the names of its scalar own properties to strings and   *)
(* each of the three collection properties is an option: <<>> when the     *)
(* property is absent, <<v>> when it is present with value v.              *)
(***************************************************************************)
EXTENDS Integers, Sequences, FiniteSets, TLC

\* ---------------------------------------------------------------- bounds
MaxItems == 2    \* longest collection (apis, paths, models, operations)
MaxSpecs == 2    \* most fan-out specs of one pass

\* ------------------------------------------------------- strings, options
Absent == <<>>
Some(v) == <<v>>
Get(o) == o[1]

NoProps == [k \in {} |-> <<>>]

RECURSIVE Concat(_)
\* the concatenation of a sequence of strings
Concat(ss) ==
    IF ss = <<>> THEN <<>> ELSE Head(ss) \o Concat(Tail(ss))

\* ------------------------------------------------------------------ state
VARIABLES
    config,     \* the configuration object passed to main (main writes to it)
    o,          \* the raw model passed to main
    model,      \* the model the transform callback received and decorated
    pc,         \* the step of main that runs next
    status,     \* "running", "crashed" (an exception left main) or "done"
    fs,         \* the files under outputDir: path -> content
    dirs,       \* the directories under outputDir (<<>> is outputDir itself)
    helpers,    \* names registered with Handlebars.registerHelper
    partials,   \* Handlebars.registerPartial: name -> source
    cb,         \* the calls of the completion callback, in order
    trace,      \* the file-system calls of the run, in order
    invocations, \* the calls of main the process makes: [o, config, configName]
    run,        \* the index in invocations of the call that is running
    ended       \* what the earlier calls left: [fs, cb, faulted] each

vars == <<config, o, model, pc, status, fs, dirs, helpers, partials, cb, trace,
          invocations, run, ended>>

\* what only the start of a further call of main changes
process == <<invocations, run, ended>>

\* the third parameter of the call of main that is running
configName == invocations[run].configName


\* ------------------------------------------------------------ path module
\* path.join(a, b) for relative paths: empty segments are dropped
Join(a, b) ==
    IF a = <<>> THEN b
    ELSE IF b = <<>> THEN a
    ELSE a \o <<"/">> \o b

Slashes(p) == {i \in 1..Len(p) : p[i] = "/"}

LastSlash(p) == CHOOSE i \in Slashes(p) : \A j \in Slashes(p) : j <= i

\* path.dirname(p): the part before the last separator, "." (here <<>>, the
\* directory path.join leaves unchanged) when there is none
Dirname(p) ==
    IF Slashes(p) = {} THEN <<>> ELSE SubSeq(p, 1, LastSlash(p) - 1)

\* d and every ancestor directory of d, the output root <<>> included
Ancestors(d) ==
    {<<>>, d} \cup {SubSeq(d, 1, i - 1) : i \in Slashes(d)}

\* p lies strictly inside directory d
Inside(p, d) ==
    IF d = <<>> THEN p # <<>>
    ELSE /\ Len(p) > Len(d) + 1
         /\ SubSeq(p, 1, Len(d)) = d
         /\ p[Len(d) + 1] = "/"

\* ---------------------------------------------------------------- objects
Obj(scal) == [scal |-> scal, apiInfo |-> Absent, models |-> Absent,
              operations |-> Absent]

EmptyObj == Obj(NoProps)

MergeProps(a, b) ==
    [k \in (DOMAIN a) \cup (DOMAIN b) |-> IF k \in DOMAIN b THEN b[k] ELSE a[k]]

\* one source of Object.assign(target, src): every own property of src is
\* copied onto target, property by property
AssignOne(target, src) ==
    [scal       |-> MergeProps(target.scal, src.scal),
     apiInfo    |-> IF src.apiInfo # Absent THEN src.apiInfo ELSE target.apiInfo,
     models     |-> IF src.models # Absent THEN src.models ELSE target.models,
     operations |-> IF src.operations # Absent THEN src.operations
                    ELSE target.operations]

RECURSIVE Assign(_, _)
\* Object.assign(target, ...srcs): sources applied left to right
Assign(target, srcs) ==
    IF srcs = <<>> THEN target
    ELSE Assign(AssignOne(target, Head(srcs)), Tail(srcs))

\* a JavaScript array, and the object {operation: [...]} that an API carries
\* as its `operations` property (Absent elems: the object has no `operation`)
Arr(items) == [arr |-> TRUE, elems |-> Some(items)]
OperationsObj(optItems) == [arr |-> FALSE, elems |-> optItems]

\* ------------------------------------------------------------- Handlebars
\* A template is a string whose tokens are literal text or one of these tags.
VarTags ==
    ("{{name}}" :> "name") @@ ("{{x}}" :> "x") @@ ("{{configName}}" :> "configName") @@
    ("{{helper}}" :> "helper")

SectionTags ==
    ("{{#models}}{{name}}{{/models}}" :> "models") @@
    ("{{#operations}}{{name}}{{/operations}}" :> "operations")

Lookup(ctx, key) == IF key \in DOMAIN ctx.scal THEN ctx.scal[key] ELSE <<>>

\* {{#coll}}{{name}}{{/coll}}: once per element of an array, with the element
\* as context; once with the object itself as context when it is no array;
\* nothing when the property is absent
Section(coll) ==
    IF coll = Absent THEN <<>>
    ELSE IF Get(coll).arr
         THEN LET items == Get(Get(coll).elems)
              IN Concat([i \in 1..Len(items) |-> Lookup(items[i], "name")])
         ELSE <<>>

\* the helpers that generators register
HelperOutput == ("helper" :> <<"helped">>)

\* {{helper}}: a registered helper of that name is called; without one the
\* tag is a property lookup
RenderToken(tok, ctx) ==
    IF tok \in DOMAIN VarTags
    THEN IF VarTags[tok] \in helpers THEN HelperOutput[VarTags[tok]]
         ELSE Lookup(ctx, VarTags[tok])
    ELSE IF tok \in DOMAIN SectionTags
         THEN Section(IF SectionTags[tok] = "models" THEN ctx.models
                      ELSE ctx.operations)
         ELSE <<tok>>

\* Handlebars.compile(t)(ctx)
Render(t, ctx) == Concat([i \in 1..Len(t) |-> RenderToken(t[i], ctx)])

\* ------------------------------------------------------ the template files
\* the template sets that ship with the generator, one directory per run name
RunNames == {"go", "py"}

CommonFiles ==
    (<<"templates", "/", "_common", "/", "LICENSE">> :> <<"Apache-2.0">>) @@
    (<<"templates", "/", "_common", "/", "UNLICENSE">> :> <<"Unlicense">>)

\* README.tpl calls the helper named `helper` when one is registered
SetFiles(dir, mark) ==
    (dir \o <<"/", "README.tpl">> :> <<mark \o "readme:", "{{x}}", "{{helper}}">>) @@
    (dir \o <<"/", "item.tpl">> :> <<mark \o "item:", "{{name}}", ":", "{{x}}">>) @@
    (dir \o <<"/", "model.tpl">> :>
        <<mark \o "model:", "{{#models}}{{name}}{{/models}}">>) @@
    (dir \o <<"/", "op.tpl">> :>
        <<mark \o "op:", "{{#operations}}{{name}}{{/operations}}", ":",
          "{{#models}}{{name}}{{/models}}">>) @@
    (dir \o <<"/", "part.tpl">> :> <<mark \o "partial">>)

BuiltinFiles ==
    CommonFiles @@ SetFiles(<<"templates", "/", "go">>, "") @@
    SetFiles(<<"templates", "/", "py">>, "py-")

OverrideDir == "tdir"

OverrideFiles ==
    (<<OverrideDir, "/", "LICENSE">> :> <<"Custom">>) @@
    (<<OverrideDir, "/", "UNLICENSE">> :> <<"Custom">>) @@
    SetFiles(<<OverrideDir>>, "t-")

TemplateFiles == BuiltinFiles @@ OverrideFiles

\* ff.readFileSync(p, 'utf8'): Absent stands for the ENOENT it throws
ReadFileSync(p) ==
    IF p \in DOMAIN TemplateFiles THEN Some(TemplateFiles[p]) ELSE Absent

RECURSIVE JoinAll(_)
\* path.join(...segments)
JoinAll(segs) ==
    IF segs = <<>> THEN <<>> ELSE Join(<<Head(segs)>>, JoinAll(Tail(segs)))

\* tpl(config, ...segments)
tpl(cfg, segments) ==
    IF cfg.templateDir # Absent
    THEN JoinAll(<<Get(cfg.templateDir)>> \o Tail(segments))
    ELSE JoinAll(<<"templates">> \o segments)

\* the {} that the LICENSE step passes as tpl's config
NoConfig == [templateDir |-> Absent]

\* ------------------------------------------------------------ file system
EmptyFs == [p \in {} |-> <<>>]

\* const subDir = (config.defaults.flat ? '' : configName)
Truthy(obj, key) == key \in DOMAIN obj.scal /\ obj.scal[key] = <<"true">>

SubDir(cfg) == IF Truthy(cfg.defaults, "flat") THEN <<>> ELSE <<configName>>

\* ----------------------------------------------------- file-system calls
\* One call of the ff backend (or a statement that throws), as the passes
\* issue them.  read: readFileSync, mkdir: mkdirp.sync, write: createFile,
\* throw: a statement that raises a TypeError.
Call(op, pass, spec, item, path, content, ctx) ==
    [op |-> op, pass |-> pass, spec |-> spec, item |-> item, path |-> path,
     content |-> content, ctx |-> ctx, ok |-> TRUE]

ReadCall(pass, spec, path) == Call("read", pass, spec, <<>>, path, <<>>, EmptyObj)
MkdirCall(pass, spec, item, path) == Call("mkdir", pass, spec, item, path, <<>>, EmptyObj)
ThrowCall(pass, spec, item) == Call("throw", pass, spec, item, <<>>, <<>>, EmptyObj)

\* fs.writeFileSync(p): the parent directory must exist and p be no directory
CanWrite(p, ds) == Dirname(p) \in ds /\ p \notin ds

\* whether the call succeeds in the given file system
Succeeds(c, ds) ==
    CASE c.op = "read"  -> ReadFileSync(c.path) # Absent
      [] c.op = "mkdir" -> TRUE
      [] c.op = "write" -> CanWrite(c.path, ds)
      [] OTHER          -> FALSE

\* WriteFileSync with a fault: a file that exists is left as it is
WriteFileSyncKeepingOld(files, c) == files @@ (c.path :> c.content)

\* fs.writeFileSync(path, content): creates the file or replaces its content
WriteFileSync(files, c) == (c.path :> c.content) @@ files

RECURSIVE ExecCalls(_, _, _, _, _)
\* Runs calls[i..] in order until one fails; fault is the index of a call
\* that the environment makes fail (0: none).  Yields the file system, the
\* directories and the calls made, the failing one last and marked.
ExecCalls(calls, i, fault, st, ds) ==
    IF i > Len(calls) THEN [fs |-> st.fs, dirs |-> ds, made |-> st.made, crashed |-> FALSE]
    ELSE LET c == calls[i] IN
         IF i = fault \/ ~Succeeds(c, ds)
         THEN [fs |-> st.fs, dirs |-> ds,
               made |-> Append(st.made, [c EXCEPT !.ok = FALSE]), crashed |-> TRUE]
         ELSE ExecCalls(calls, i + 1, fault,
                [fs   |-> IF c.op = "write" THEN WriteFileSync(st.fs, c) ELSE st.fs,
                 made |-> Append(st.made, c)],
                IF c.op = "mkdir" THEN ds \cup Ancestors(c.path) ELSE ds)

\* -------------------------------------------------------------- the passes
SpecDefaults(pa) == IF pa.defaults = Absent THEN EmptyObj ELSE Get(pa.defaults)

\* Toplevel with a fault: the clone keeps apiInfo
ToplevelWithApiInfo(m) == m

\* let toplevel = clone(model); delete toplevel.apiInfo
Toplevel(m) == [m EXCEPT !.apiInfo = Absent]

\* ItemContext with a fault: the spec defaults applied after the toplevel clone
ItemContextDefaultsLast(cfg, pa, m, item) ==
    Assign(EmptyObj, <<cfg.defaults, [m EXCEPT !.apiInfo = Absent],
                       IF pa.defaults = Absent THEN EmptyObj ELSE Get(pa.defaults), item>>)

\* Object.assign({}, config.defaults, pa.defaults||{}, toplevel, item)
ItemContext(cfg, pa, m, item) ==
    Assign(EmptyObj, <<cfg.defaults, SpecDefaults(pa), Toplevel(m), item>>)

\* Handlebars.compile(readFileSync(...)): the text of a template that exists
TemplateAt(path) ==
    IF ReadFileSync(path) = Absent THEN <<>> ELSE Get(ReadFileSync(path))

\* model.apiInfo.apis and model.apiInfo.paths; Absent when the property (or
\* apiInfo) is missing, so that iterating it throws
Apis(m) == IF m.apiInfo = Absent THEN Absent ELSE Get(m.apiInfo).apis
Paths(m) == IF m.apiInfo = Absent THEN Absent ELSE Get(m.apiInfo).paths

\* lines 74-78
DirectoriesCalls(cfg) ==
    IF cfg.directories = Absent THEN <<>>
    ELSE LET dl == Get(cfg.directories)
         IN [i \in 1..Len(dl) |->
                MkdirCall("directories", 0, <<i>>, Join(SubDir(cfg), dl[i]))]

\* TransformationsCalls with a fault: the LICENSE written with the directory
\* preparation, ahead of the whole-output pass
TransformationsCallsAfterLicense(cfg, m) ==
    LET acts == cfg.transformations
    IN <<Call("write", "license", 0, <<>>, Join(SubDir(cfg), <<"LICENSE">>),
              <<"Unlicense">>, EmptyObj)>> \o
       [i \in 1..Len(acts) |->
          IF acts[i].template = Absent
          THEN ThrowCall("transformations", i, <<>>)
          ELSE Call("write", "transformations", i, <<>>,
                    Join(SubDir(cfg), Render(acts[i].output, m)),
                    Render(Get(acts[i].template), m), m)]

\* lines 79-86: Handlebars.compile throws on an action without template
TransformationsCalls(cfg, m) ==
    LET acts == cfg.transformations
    IN [i \in 1..Len(acts) |->
          IF acts[i].template = Absent
          THEN ThrowCall("transformations", i, <<>>)
          ELSE Call("write", "transformations", i, <<>>,
                    Join(SubDir(cfg), Render(acts[i].output, m)),
                    Render(Get(acts[i].template), m), m)]

\* lines 87-99: Handlebars.compile returns a plain function (it is called as
\* one on lines 82, 84, 116, ...), which has no `render` property, so line 89
\* raises TypeError and lines 90-98 are never reached
TouchCalls(cfg) ==
    IF cfg.touch = Absent THEN <<>> ELSE <<ThrowCall("touch", 0, <<>>)>>

RECURSIVE SplitLines(_)
\* s.split('\n')
SplitLines(s) ==
    IF \A i \in 1..Len(s) : s[i] # "\n" THEN <<s>>
    ELSE LET n == CHOOSE i \in 1..Len(s) :
                     s[i] = "\n" /\ \A j \in 1..(i - 1) : s[j] # "\n"
         IN <<SubSeq(s, 1, n - 1)>> \o SplitLines(SubSeq(s, n + 1, Len(s)))

RECURSIVE Trim(_)
\* s.trim()
Trim(s) ==
    IF s = <<>> THEN s
    ELSE IF Head(s) = " " THEN Trim(Tail(s))
    ELSE IF s[Len(s)] = " " THEN Trim(SubSeq(s, 1, Len(s) - 1))
    ELSE s

IsNotCR(t) == t # "\r"

\* lines 90-93: the files a touch list names
TouchFiles(touchList) ==
    LET files == SplitLines(SelectSeq(touchList, IsNotCR))
    IN {Trim(files[i]) : i \in 1..Len(files)} \ {<<>>}

\* LicenseCalls with a fault: the license text resolved like every other
\* template, so that a templateDir override is honoured
LicenseCallsOverridable(cfg) ==
    LET src == tpl(cfg, <<"_common", IF cfg.apache THEN "LICENSE" ELSE "UNLICENSE">>)
    IN <<ReadCall("license", 0, src),
         Call("write", "license", 0, <<>>, Join(SubDir(cfg), <<"LICENSE">>),
              TemplateAt(src), EmptyObj)>>

\* lines 100-105
LicenseCalls(cfg) ==
    LET src == tpl(NoConfig, <<"_common",
                                IF cfg.apache THEN "LICENSE" ELSE "UNLICENSE">>)
    IN <<ReadCall("license", 0, src),
         Call("write", "license", 0, <<>>, Join(SubDir(cfg), <<"LICENSE">>),
              TemplateAt(src), EmptyObj)>>

\* lines 111-120, one spec
PerApiSpec(cfg, m, s) ==
    LET pa == Get(cfg.perApi)[s]
        src == tpl(cfg, <<configName, pa.input>>)
    IN <<ReadCall("perApi", s, src)>> \o
       (IF Apis(m) = Absent THEN <<ThrowCall("perApi", s, <<>>)>>
        ELSE LET apis == Get(Apis(m))
             IN [i \in 1..Len(apis) |->
                   LET cApi == ItemContext(cfg, pa, m, apis[i])
                   IN Call("write", "perApi", s, <<i>>,
                           Join(SubDir(cfg), Render(pa.output, cApi)),
                           Render(TemplateAt(src), cApi), cApi)])

\* lines 108-121
PerApiCalls(cfg, m) ==
    IF cfg.perApi = Absent THEN <<>>
    ELSE Concat([s \in 1..Len(Get(cfg.perApi)) |-> PerApiSpec(cfg, m, s)])

\* lines 129-136, one item: mkdirp.sync of the rendered path's directory,
\* then createFile
PerPathItem(cfg, m, s, i) ==
    LET pa == Get(cfg.perPath)[s]
        src == tpl(cfg, <<configName, pa.input>>)
        cPath == ItemContext(cfg, pa, m, Get(Paths(m))[i])
        filename == Render(pa.output, cPath)
    IN <<MkdirCall("perPath", s, <<i>>, Join(SubDir(cfg), Dirname(filename))),
         Call("write", "perPath", s, <<i>>, Join(SubDir(cfg), filename),
              Render(TemplateAt(src), cPath), cPath)>>

\* lines 126-137, one spec
PerPathSpec(cfg, m, s) ==
    <<ReadCall("perPath", s, tpl(cfg, <<configName, Get(cfg.perPath)[s].input>>))>> \o
    (IF Paths(m) = Absent THEN <<ThrowCall("perPath", s, <<>>)>>
     ELSE Concat([i \in 1..Len(Get(Paths(m))) |-> PerPathItem(cfg, m, s, i)]))

\* PerPathCalls with a fault: the specs taken last to first
PerPathCallsReversed(cfg, m) ==
    IF cfg.perPath = Absent THEN <<>>
    ELSE LET n == Len(Get(cfg.perPath))
         IN Concat([s \in 1..n |-> PerPathSpec(cfg, m, n + 1 - s)])

\* lines 123-138
PerPathCalls(cfg, m) ==
    IF cfg.perPath = Absent THEN <<>>
    ELSE Concat([s \in 1..Len(Get(cfg.perPath)) |-> PerPathSpec(cfg, m, s)])

\* lines 146-148: outer.models = [Object.assign({}, model, pm.defaults||{})]
ModelContext(pm, outer, item) ==
    [outer EXCEPT !.models = Some(Arr(<<Assign(EmptyObj, <<item, SpecDefaults(pm)>>)>>))]

\* PerModelSpec with a fault: the items are read from outer.models, which
\* the previous spec left holding its last item alone
PerModelSpecLive(cfg, m, s) ==
    LET pm == Get(cfg.perModel)[s]
        src == tpl(cfg, <<configName, pm.input>>)
    IN <<ReadCall("perModel", s, src)>> \o
       (IF m.models = Absent THEN <<ThrowCall("perModel", s, <<>>)>>
        ELSE LET all == Get(Get(m.models).elems)
                 items == IF s > 1 /\ all # <<>> THEN <<all[Len(all)]>> ELSE all
             IN [i \in 1..Len(items) |->
                   LET outer == ModelContext(pm, m, items[i])
                   IN Call("write", "perModel", s, <<i>>,
                           Join(SubDir(cfg), Render(pm.output, outer)),
                           Render(TemplateAt(src), outer), outer)])

\* lines 142-153, one spec; cModels is the clone taken on line 141
PerModelSpec(cfg, m, s) ==
    LET pm == Get(cfg.perModel)[s]
        src == tpl(cfg, <<configName, pm.input>>)
        cModels == m.models
    IN <<ReadCall("perModel", s, src)>> \o
       (IF cModels = Absent THEN <<ThrowCall("perModel", s, <<>>)>>
        ELSE LET items == Get(Get(cModels).elems)
             IN [i \in 1..Len(items) |->
                   LET outer == ModelContext(pm, m, items[i])
                   IN Call("write", "perModel", s, <<i>>,
                           Join(SubDir(cfg), Render(pm.output, outer)),
                           Render(TemplateAt(src), outer), outer)])

\* lines 140-154
PerModelCalls(cfg, m) ==
    IF cfg.perModel = Absent THEN <<>>
    ELSE Concat([s \in 1..Len(Get(cfg.perModel)) |-> PerModelSpec(cfg, m, s)])

\* lines 163-164: model.operations = [operation]
OperationContext(outer, operation) ==
    [outer EXCEPT !.operations = Some(Arr(<<operation>>))]

\* lines 159-168, one API of one spec
PerOperationApi(cfg, m, s, a) ==
    LET po == Get(cfg.perOperation)[s]
        src == tpl(cfg, <<configName, po.input>>)
        cOperations == Get(Apis(m))[a].operations
    IN <<ReadCall("perOperation", s, src)>> \o
       (IF cOperations = Absent \/ Get(cOperations).elems = Absent
        THEN <<ThrowCall("perOperation", s, <<a>>)>>
        ELSE LET ops == Get(Get(cOperations).elems)
             IN [j \in 1..Len(ops) |->
                   LET outer == OperationContext(m, ops[j])
                   IN Call("write", "perOperation", s, <<a, j>>,
                           Join(SubDir(cfg), Render(po.output, outer)),
                           Render(TemplateAt(src), outer), outer)])

\* lines 157-170, one spec
PerOperationSpec(cfg, m, s) ==
    IF Apis(m) = Absent THEN <<ThrowCall("perOperation", s, <<>>)>>
    ELSE Concat([a \in 1..Len(Get(Apis(m))) |-> PerOperationApi(cfg, m, s, a)])

\* lines 156-171
PerOperationCalls(cfg, m) ==
    IF cfg.perOperation = Absent THEN <<>>
    ELSE Concat([s \in 1..Len(Get(cfg.perOperation)) |-> PerOperationSpec(cfg, m, s)])

\* ----------------------------------------------------------------- inputs
Passes == {"perApi", "perPath", "perModel", "perOperation"}

InputOf(pass) ==
    CASE pass = "perModel"     -> "model.tpl"
      [] pass = "perOperation" -> "op.tpl"
      [] OTHER                 -> "item.tpl"

NameTag(pass) ==
    CASE pass = "perModel"     -> "{{#models}}{{name}}{{/models}}"
      [] pass = "perOperation" -> "{{#operations}}{{name}}{{/operations}}"
      [] OTHER                 -> "{{name}}"

\* the s-th fan-out spec of a pass: {input, output, defaults?}
\* the directory that nested output paths name; it is also the first that
\* config.directories lists
NestedDir == <<"d", "1">>

Nest(nested, name) == IF nested THEN NestedDir \o <<"/">> \o name ELSE name

FanOutSpec(pass, s, xSpec, literal, nested) ==
    [input    |-> InputOf(pass),
     output   |-> IF literal THEN <<"LICENSE">>
                  ELSE Nest(nested, <<pass, ToString(s), "-", NameTag(pass)>>),
     defaults |-> IF xSpec THEN Some(Obj("x" :> <<"spec-x">>)) ELSE Absent]

FanOutSpecs(pass, n, xSpec, literal, nested) ==
    IF n = 0 THEN Absent
    ELSE Some([s \in 1..n |-> FanOutSpec(pass, s, xSpec, literal, nested)])

\* one entry of config.transformations; the last of several has no input
\* and carries its template inline
Transformation(i, literal, nested) ==
    [input    |-> IF i = 1 THEN Some("README.tpl") ELSE Absent,
     output   |-> IF literal THEN <<"LICENSE">>
                  ELSE Nest(nested, <<"README", ToString(i), ".md">>),
     template |-> IF i = 1 THEN Absent ELSE Some(<<"inline:", "{{x}}">>)]

Flag(key, on) == IF on THEN key :> <<"true">> ELSE NoProps

\* a configuration object, from the choices p
Config(p) ==
    [templateDir     |-> IF p.tdir THEN Some(OverrideDir) ELSE Absent,
     defaults        |-> Obj(Flag("verbose", p.verbose) @@ Flag("flat", p.flat) @@
                             (IF p.xDefaults THEN "x" :> <<"defaults-x">>
                              ELSE NoProps)),
     generator       |-> IF p.gen THEN Some([lambdas |-> {"helper"}]) ELSE Absent,
     partials        |-> IF p.part THEN <<[name |-> "part", file |-> "part.tpl"]>>
                         ELSE <<>>,
     transformations |-> [i \in 1..p.ntx |-> Transformation(i, p.literal = "transformations",
                                                          p.nested = "transformations")],
     directories     |-> IF p.ndirs = 0 THEN Absent
                         ELSE Some([i \in 1..p.ndirs |-> <<"d", ToString(i)>>]),
     touch           |-> IF p.touch
                         THEN Some(<<"README1.md", "\r", "\n", " ", "touched", "\n">>)
                         ELSE Absent,
     apache          |-> p.apache,
     perApi          |-> FanOutSpecs("perApi", p.nspec["perApi"], p.xSpec,
                                     p.literal = "perApi", p.nested = "perApi"),
     perPath         |-> FanOutSpecs("perPath", p.nspec["perPath"], p.xSpec,
                                     p.literal = "perPath", p.nested = "perPath"),
     perModel        |-> FanOutSpecs("perModel", p.nspec["perModel"], p.xSpec,
                                     p.literal = "perModel", p.nested = "perModel"),
     perOperation    |-> FanOutSpecs("perOperation", p.nspec["perOperation"], p.xSpec,
                                     p.literal = "perOperation", p.nested = "perOperation")]

ItemName(prefix, i) == <<prefix, ToString(i)>>

Item(prefix, i, xItem) ==
    Obj(("name" :> ItemName(prefix, i)) @@
        (IF xItem THEN "x" :> <<"item-x">> ELSE NoProps))

\* API i has i operations
Api(i, xItem) ==
    [Item("a", i, xItem) EXCEPT !.operations =
        Some(OperationsObj(Some([j \in 1..i |->
            Obj("name" :> <<"a", ToString(i), "o", ToString(j)>>)])))]

\* the model the transform yields for a raw model with n APIs, paths and
\* schema models
ModelOf(n, xTop, xItem) ==
    [scal       |-> IF xTop THEN "x" :> <<"top-x">> ELSE NoProps,
     apiInfo    |-> Some([apis  |-> Some([i \in 1..n |-> Api(i, xItem)]),
                          paths |-> Some([i \in 1..n |-> Item("p", i, xItem)])]),
     models     |-> Some(Arr([i \in 1..n |-> Item("m", i, xItem)])),
     operations |-> Absent]

Base ==
    [tdir |-> FALSE, verbose |-> FALSE, flat |-> FALSE, gen |-> TRUE, part |-> FALSE,
     ntx |-> 1, ndirs |-> 0, touch |-> FALSE, apache |-> FALSE,
     xDefaults |-> FALSE, xSpec |-> FALSE, literal |-> "none", nested |-> "none",
     nspec |-> [q \in Passes |-> 1]]

\* which passes are configured, with how many specs, over how many items
ShapeInputs ==
    {[cfg |-> Config([Base EXCEPT !.nspec = [q \in Passes |-> IF q \in on THEN k ELSE 0]]),
      o   |-> ModelOf(n, FALSE, FALSE)] :
        on \in SUBSET Passes, k \in 1..MaxSpecs, n \in 0..MaxItems}

\* which of the four sources of a per-item context define x
PrecedenceInputs ==
    {[cfg |-> Config([Base EXCEPT !.xDefaults = xs[1], !.xSpec = xs[2]]),
      o   |-> ModelOf(1, xs[3], xs[4])] : xs \in [1..4 -> BOOLEAN]}

\* the options of the configuration that select templates and steps
OptionInputs ==
    {[cfg |-> Config([Base EXCEPT !.tdir = b[1], !.part = b[2], !.touch = b[3],
                                  !.apache = b[4], !.ndirs = nd, !.ntx = nt]),
      o   |-> ModelOf(1, TRUE, FALSE)] :
        b \in [1..4 -> BOOLEAN], nd \in 0..1, nt \in 0..MaxSpecs}

\* tracing, layout and generator
DefaultsInputs ==
    {[cfg |-> Config([Base EXCEPT !.verbose = b[1], !.flat = b[2], !.gen = b[3]]),
      o   |-> ModelOf(1, TRUE, FALSE)] : b \in [1..3 -> BOOLEAN]}

\* a pass whose output path is the literal LICENSE
LiteralInputs ==
    {[cfg |-> Config([Base EXCEPT !.literal = q, !.apache = a]),
      o |-> ModelOf(1, TRUE, FALSE)] :
        q \in Passes \cup {"transformations"}, a \in BOOLEAN}

\* a model with one API, path and schema model in which one source
\* collection of a fan-out pass is missing, or present without elements;
\* "operations" is the object an API carries, "operation" the list in it
Sources == {"apiInfo", "apis", "paths", "models", "operations", "operation"}

MissingModel(src, empty) ==
    LET full == ModelOf(1, FALSE, FALSE)
        info == Get(full.apiInfo)
        gap == IF empty THEN Some(<<>>) ELSE Absent
        api(ops) == [Get(info.apis)[1] EXCEPT !.operations = ops]
    IN CASE src = "apiInfo" -> [full EXCEPT !.apiInfo = Absent]
         [] src = "apis"    -> [full EXCEPT !.apiInfo = Some([info EXCEPT !.apis = gap])]
         [] src = "paths"   -> [full EXCEPT !.apiInfo = Some([info EXCEPT !.paths = gap])]
         [] src = "models"  ->
                [full EXCEPT !.models = IF empty THEN Some(Arr(<<>>)) ELSE Absent]
         [] src = "operations" ->
                [full EXCEPT !.apiInfo = Some([info EXCEPT !.apis = Some(<<api(Absent)>>)])]
         [] src = "operation" ->
                [full EXCEPT !.apiInfo =
                    Some([info EXCEPT !.apis = Some(<<api(Some(OperationsObj(gap)))>>)])]

\* every fan-out pass configured, over a model that lacks a source collection
MissingInputs ==
    {[cfg |-> Config(Base), o |-> MissingModel(src, empty)] :
        src \in Sources, empty \in BOOLEAN}

\* a pass whose output paths lie in the directory d1, which
\* config.directories lists or not
NestedInputs ==
    {[cfg |-> Config([Base EXCEPT !.nested = q, !.ndirs = IF listed THEN 1 ELSE 0]),
      o   |-> ModelOf(1, TRUE, FALSE)] :
        q \in Passes \cup {"transformations"}, listed \in BOOLEAN}

\* a pass over two items whose output path is the same for every item
CollisionInputs ==
    {[cfg |-> Config([Base EXCEPT !.literal = q]), o |-> ModelOf(2, FALSE, FALSE)] :
        q \in Passes}

Inputs ==
    ShapeInputs \cup PrecedenceInputs \cup OptionInputs \cup DefaultsInputs \cup
    LiteralInputs \cup MissingInputs \cup NestedInputs \cup CollisionInputs

\* one call main(o, config, name, callback): a model of one API, path and
\* schema model, one transformation (README.tpl, which uses the helper) and,
\* if withApi, one perApi spec
RunCall(p, withApi, name) ==
    [o          |-> ModelOf(1, TRUE, FALSE),
     config     |-> Config([p EXCEPT !.nspec =
                       [q \in Passes |-> IF q = "perApi" /\ withApi THEN 1 ELSE 0]]),
     configName |-> name]

\* a call, a call with another generator and other partials, the first call
\* again
DeterminismPrograms ==
    {<<RunCall([Base EXCEPT !.gen = g[1], !.part = g[2]], TRUE, "go"),
       RunCall([Base EXCEPT !.gen = g[3], !.part = g[4]], TRUE, "go"),
       RunCall([Base EXCEPT !.gen = g[1], !.part = g[2]], TRUE, "go")>> :
        g \in [1..4 -> BOOLEAN]}

\* a call without tracing, then the same call with defaults.verbose
VerbosePrograms ==
    {<<RunCall([Base EXCEPT !.gen = g], TRUE, "go"),
       RunCall([Base EXCEPT !.gen = g, !.verbose = TRUE], TRUE, "go")>> :
        g \in BOOLEAN}

\* two calls into the same outputDir, the second under a run name that may
\* differ and without the perApi spec of the first
FlatPrograms ==
    {<<RunCall([Base EXCEPT !.flat = flat], TRUE, "go"),
       RunCall([Base EXCEPT !.flat = flat], FALSE, name)>> :
        flat \in BOOLEAN, name \in RunNames}

Programs == DeterminismPrograms \cup VerbosePrograms \cup FlatPrograms

\* what outputDir holds before the run
JunkFiles(sub) == Join(sub, <<"junk.txt">>) :> <<"junk">>

\* ------------------------------------------------------------------- Init
\* main has been called with (o, config, configName, callback); outputDir is
\* empty or holds the files of an earlier run
Init ==
    \E in \in Inputs, stale \in BOOLEAN :
        /\ invocations = <<[o |-> in.o, config |-> in.cfg, configName |-> "go"]>>
        /\ run = 1
        /\ ended = <<>>
        /\ config = in.cfg
        /\ o = in.o
        /\ model = EmptyObj
        /\ pc = "main"
        /\ status = "running"
        /\ fs = IF stale THEN JunkFiles(SubDir(in.cfg)) ELSE EmptyFs
        /\ dirs = IF stale THEN Ancestors(SubDir(in.cfg)) ELSE {<<>>}
        /\ helpers = {}
        /\ partials = <<>>
        /\ cb = <<>>
        /\ trace = <<>>

\* a process that is to make the calls of one of the programs, into an
\* empty output directory and with an empty Handlebars registry
InitRuns ==
    \E prog \in Programs :
        /\ invocations = prog
        /\ run = 1
        /\ ended = <<>>
        /\ config = prog[1].config
        /\ o = prog[1].o
        /\ model = EmptyObj
        /\ pc = "main"
        /\ status = "running"
        /\ fs = EmptyFs
        /\ dirs = {<<>>}
        /\ helpers = {}
        /\ partials = <<>>
        /\ cb = <<>>
        /\ trace = <<>>

\* ---------------------------------------------------------------- actions
Event(op, ok) == [Call(op, "prepare", 0, <<>>, <<>>, <<>>, EmptyObj) EXCEPT !.ok = ok]

\* lines 33-40: up to the call of adaptor.transform
Main ==
    /\ pc = "main" /\ status = "running"
    /\ config' = [config EXCEPT !.defaults.scal = ("configName" :> <<configName>>) @@ @]
    /\ pc' = "transform"
    /\ UNCHANGED <<o, model, status, fs, dirs, helpers, partials, cb, trace, process>>

\* lines 41-43: model.generator = generator; every lambda onto the model
LambdaNames == {"lambda"}

Decorate(m, cfg) ==
    [m EXCEPT !.scal =
        [k \in LambdaNames |-> <<"function">>] @@
        ("generator" :> IF cfg.generator = Absent THEN <<"undefined">>
                        ELSE <<"generator">>) @@ @]

\* lines 53-57 and 60-67: the template files the callback reads, in order
PartialReads(cfg) ==
    [i \in 1..Len(cfg.partials) |->
        ReadCall("partials", i, tpl(cfg, <<configName, cfg.partials[i].file>>))]

InputReads(cfg) ==
    LET with == {i \in 1..Len(cfg.transformations) : cfg.transformations[i].input # Absent}
        RECURSIVE from(_)
        from(i) == IF i > Len(cfg.transformations) THEN <<>>
                   ELSE (IF i \in with
                         THEN <<ReadCall("transformations", i,
                                   tpl(cfg, <<configName, Get(cfg.transformations[i].input)>>))>>
                         ELSE <<>>) \o from(i + 1)
    IN from(1)

\* lines 62-65: tx.template = readFileSync(...) for the entries read
Loaded(cfg, made) ==
    [cfg EXCEPT !.transformations =
        [i \in 1..Len(cfg.transformations) |->
            IF \E k \in 1..Len(made) :
                  made[k].ok /\ made[k].pass = "transformations" /\ made[k].spec = i
            THEN [cfg.transformations[i] EXCEPT !.template =
                     Some(TemplateAt(tpl(cfg, <<configName, Get(cfg.transformations[i].input)>>)))]
            ELSE cfg.transformations[i]]]

\* line 56: registerPartial for the partials read
Registered(cfg, made, old) ==
    LET ok == {i \in 1..Len(cfg.partials) :
                 \E k \in 1..Len(made) :
                    made[k].ok /\ made[k].pass = "partials" /\ made[k].spec = i}
    IN [n \in {cfg.partials[i].name : i \in ok} |->
          LET i == CHOOSE i \in ok : cfg.partials[i].name = n
          IN TemplateAt(tpl(cfg, <<configName, cfg.partials[i].file>>))] @@ old

\* lines 41-72: the callback of adaptor.transform, up to the call of mkdirp.
\* The transform reports err or not and passes a model or not; the callback
\* never looks at err.
TransformCallback ==
    /\ pc = "transform" /\ status = "running"
    /\ \E err \in BOOLEAN, given \in BOOLEAN :
        /\ ~err => given
        /\ IF ~given
           THEN \* line 41: model is undefined
                /\ status' = "crashed"
                /\ trace' = trace \o <<Event("transform", ~err),
                                       [ThrowCall("model", 0, <<>>) EXCEPT !.ok = FALSE]>>
                /\ UNCHANGED <<config, model, pc, fs, dirs, helpers, partials>>
           ELSE IF Truthy(config.defaults, "verbose") /\ config.generator = Absent
           THEN \* line 45: generator is undefined
                /\ status' = "crashed"
                /\ model' = Decorate(o, config)
                /\ trace' = trace \o <<Event("transform", ~err),
                                       [ThrowCall("model", 0, <<>>) EXCEPT !.ok = FALSE]>>
                /\ UNCHANGED <<config, pc, fs, dirs, helpers, partials>>
           ELSE \E cs \in {PartialReads(config) \o InputReads(config)} :
                \E fault \in 0..Len(cs) :
                \E r \in {ExecCalls(cs, 1, fault, [fs |-> fs, made |-> <<>>], dirs)} :
                   /\ model' = Decorate(o, config)
                   /\ helpers' = helpers \cup
                         (IF config.generator = Absent THEN {}
                          ELSE Get(config.generator).lambdas)
                   /\ partials' = Registered(config, r.made, partials)
                   /\ config' = Loaded(config, r.made)
                   /\ trace' = Append(trace, Event("transform", ~err)) \o r.made
                   /\ status' = IF r.crashed THEN "crashed" ELSE "running"
                   /\ pc' = IF r.crashed THEN pc ELSE "mkdirp"
                   /\ UNCHANGED <<fs, dirs>>
    /\ UNCHANGED <<o, cb, process>>

\* line 72: mkdirp(outputDir/subDir) completes; its callback takes no
\* argument, so an error is dropped, and calls rimraf
MkdirpCallback ==
    /\ pc = "mkdirp" /\ status = "running"
    /\ \E ok \in BOOLEAN :
        /\ dirs' = IF ok THEN dirs \cup Ancestors(SubDir(config)) ELSE dirs
        /\ trace' = Append(trace, Event("mkdirp", ok))
    /\ pc' = "rimraf"
    /\ UNCHANGED <<config, o, model, status, fs, helpers, partials, cb, process>>

\* line 73: rimraf(outputDir/subDir + '/*') completes, having removed all it
\* matched or, on an error, only some of it; its callback takes no argument
RimrafCallback ==
    /\ pc = "rimraf" /\ status = "running"
    /\ LET sub == SubDir(config)
           files == {p \in DOMAIN fs : Inside(p, sub)}
           subdirs == {d \in dirs : Inside(d, sub)}
       IN \E gone \in SUBSET files :
            /\ fs' = [p \in (DOMAIN fs) \ gone |-> fs[p]]
            /\ dirs' = IF gone = files THEN dirs \ subdirs ELSE dirs
            /\ trace' = Append(trace, Event("rimraf", gone = files))
    /\ pc' = "directories"
    /\ UNCHANGED <<config, o, model, status, helpers, partials, cb, process>>

\* A synchronous stretch of the rimraf callback: its calls run in order;
\* the first that throws ends the run, as nothing catches the exception.
RunPass(here, calls, next) ==
    /\ pc = here /\ status = "running"
    /\ \E cs \in {calls} : \E fault \in 0..Len(cs) :
       \E r \in {ExecCalls(cs, 1, fault, [fs |-> fs, made |-> <<>>], dirs)} :
        LET rendered == {k \in 1..Len(r.made) : r.made[k].op = "write"}
            last == CHOOSE k \in rendered : \A j \in rendered : j <= k
        IN /\ fs' = r.fs
           /\ dirs' = r.dirs
           /\ trace' = trace \o r.made
           /\ model' = IF here \in {"perModel", "perOperation"} /\ rendered # {}
                       THEN r.made[last].ctx ELSE model
           /\ status' = IF r.crashed THEN "crashed" ELSE "running"
           /\ pc' = IF r.crashed THEN here ELSE next
    /\ UNCHANGED <<config, o, helpers, partials, cb, process>>

Directories == RunPass("directories", DirectoriesCalls(config), "transformations")

Transformations ==
    RunPass("transformations", TransformationsCalls(config, model), "touch")

Touch == RunPass("touch", TouchCalls(config), "license")

License == RunPass("license", LicenseCalls(config), "perApi")

PerApi == RunPass("perApi", PerApiCalls(config, model), "perPath")

PerPath == RunPass("perPath", PerPathCalls(config, model), "perModel")

PerModel == RunPass("perModel", PerModelCalls(config, model), "perOperation")

PerOperation == RunPass("perOperation", PerOperationCalls(config, model), "callback")

\* line 173: callback(null, true)
Callback ==
    /\ pc = "callback" /\ status = "running"
    /\ cb' = Append(cb, [error |-> "null", success |-> TRUE])
    /\ status' = "done"
    /\ UNCHANGED <<config, o, model, pc, fs, dirs, helpers, partials, trace, process>>

\* the environment made a call fail: the transform, mkdirp or rimraf reported
\* an error, or the call that ended the run would have succeeded in the
\* file system it met (dirs is still that of the moment of the failure)
EnvFaulted ==
    \E i \in 1..Len(trace) :
        /\ ~trace[i].ok
        /\ \/ trace[i].op \in {"transform", "mkdirp", "rimraf"}
           \/ Succeeds(trace[i], dirs)

\* The caller calls main again, once the callback of the previous call has
\* told it that the run is complete.  The output directory and the
\* Handlebars registry (line 10: one per process) are as the previous call
\* left them; a caller that passes the same configuration passes the same
\* object, as the previous call left it.
MainAgain ==
    /\ status = "done" /\ run < Len(invocations)
    /\ ended' = Append(ended, [fs |-> fs, cb |-> cb, faulted |-> EnvFaulted])
    /\ run' = run + 1
    /\ config' = IF invocations[run + 1].config = invocations[run].config
                 THEN config ELSE invocations[run + 1].config
    /\ o' = invocations[run + 1].o
    /\ model' = EmptyObj
    /\ pc' = "main"
    /\ status' = "running"
    /\ cb' = <<>>
    /\ trace' = <<>>
    /\ UNCHANGED <<fs, dirs, helpers, partials, invocations>>

Next ==
    \/ Main
    \/ TransformCallback
    \/ MkdirpCallback
    \/ RimrafCallback
    \/ Directories
    \/ Transformations
    \/ Touch
    \/ License
    \/ PerApi
    \/ PerPath
    \/ PerModel
    \/ PerOperation
    \/ Callback

Spec == Init /\ [][Next]_vars

\* a process that calls main several times, each call after the previous
\* one has completed
NextRuns ==
    \/ Next
    \/ MainAgain

SpecRuns == InitRuns /\ [][NextRuns]_vars

\* ================================================================= claims
Events == 1..Len(trace)

Wrote(i) == trace[i].op = "write" /\ trace[i].ok

Is(i, op) == trace[i].op = op

\* the path of a file of the run's output subdirectory
Out(name) == Join(SubDir(config), name)

\* ---------------------------------------------------------------------
\* C1 (as claimed): the clean completes before the first file of the run is
\* written, and a file that was in the subdirectory before the run and that
\* the run does not write (junk.txt) is absent when the run has completed.
C1_CleanBeforeWrite ==
    /\ \A i \in Events : Wrote(i) =>
          \E j \in 1..(i - 1) : Is(j, "rimraf")
    /\ status = "done" => Out(<<"junk.txt">>) \notin DOMAIN fs

\* ---------------------------------------------------------------------
\* C2: every field of the context of a perApi or perPath render is the
\* item's own when the item has it, else the toplevel clone's (the model
\* without apiInfo), else the fan-out spec's default, else the global
\* default; this holds field by field.
Precedence(item, top, specDefaults, defaults, k) ==
    IF k \in DOMAIN item THEN item[k]
    ELSE IF k \in DOMAIN top THEN top[k]
    ELSE IF k \in DOMAIN specDefaults THEN specDefaults[k]
    ELSE defaults[k]

FanOutItem(e) ==
    IF e.pass = "perApi" THEN Get(Apis(o))[e.item[1]] ELSE Get(Paths(o))[e.item[1]]

FanOutSpecOf(e) ==
    IF e.pass = "perApi" THEN Get(config.perApi)[e.spec] ELSE Get(config.perPath)[e.spec]

FanOutDefaults(e) ==
    IF FanOutSpecOf(e).defaults = Absent THEN NoProps
    ELSE Get(FanOutSpecOf(e).defaults).scal

C2_MergePrecedence ==
    \A i \in Events :
        (trace[i].op = "write" /\ trace[i].pass \in {"perApi", "perPath"}) =>
            LET e == trace[i]
                item == FanOutItem(e).scal
            IN /\ DOMAIN e.ctx.scal =
                    (DOMAIN item) \cup (DOMAIN model.scal) \cup
                    (DOMAIN FanOutDefaults(e)) \cup (DOMAIN config.defaults.scal)
               /\ \A k \in DOMAIN e.ctx.scal :
                    e.ctx.scal[k] = Precedence(item, model.scal, FanOutDefaults(e),
                                               config.defaults.scal, k)
               /\ e.ctx.apiInfo = Absent
               /\ e.ctx.models = o.models
               /\ e.ctx.operations = FanOutItem(e).operations
               /\ e.path = Out(Render(FanOutSpecOf(e).output, e.ctx))
               /\ e.content =
                    Render(TemplateFiles[tpl(config, <<configName, FanOutSpecOf(e).input>>)],
                           e.ctx)

\* a perApi and a perPath file have been rendered for an item that has x
\* while the model, the spec defaults and the global defaults have it too
C2_Witness ==
    /\ status = "done"
    /\ \E i \in Events : Wrote(i) /\ trace[i].pass = "perApi" /\
          Lookup(trace[i].ctx, "x") = <<"item-x">>
    /\ \E i \in Events : Wrote(i) /\ trace[i].pass = "perPath" /\
          Lookup(trace[i].ctx, "x") = <<"item-x">>
    /\ "x" \in DOMAIN model.scal
    /\ "x" \in DOMAIN config.defaults.scal
    /\ \E i \in Events : Wrote(i) /\ trace[i].pass = "perApi" /\
          "x" \in DOMAIN FanOutDefaults(trace[i])

\* ---------------------------------------------------------------------
\* C3: in a completed run whose rendered output paths are pairwise distinct,
\* every perApi spec has written one file per API, every perPath spec one
\* per path, every perModel spec (the later ones too) one per schema model,
\* and every perOperation spec one per operation of every API.
DistinctPaths ==
    \A i, j \in Events : (Wrote(i) /\ Wrote(j) /\ trace[i].path = trace[j].path) => i = j

WrittenBy(pass, s) == {i \in Events : Wrote(i) /\ trace[i].pass = pass /\ trace[i].spec = s}

RECURSIVE Sum(_)
Sum(ns) == IF ns = <<>> THEN 0 ELSE Head(ns) + Sum(Tail(ns))

OperationCount ==
    Sum([a \in 1..Len(Get(Apis(o))) |->
            Len(Get(Get(Get(Apis(o))[a].operations).elems))])

ItemCount(pass) ==
    CASE pass = "perApi"       -> Len(Get(Apis(o)))
      [] pass = "perPath"      -> Len(Get(Paths(o)))
      [] pass = "perModel"     -> Len(Get(Get(o.models).elems))
      [] pass = "perOperation" -> OperationCount

SpecsOf(pass) ==
    LET list == CASE pass = "perApi"       -> config.perApi
                  [] pass = "perPath"      -> config.perPath
                  [] pass = "perModel"     -> config.perModel
                  [] pass = "perOperation" -> config.perOperation
    IN IF list = Absent THEN 0 ELSE Len(Get(list))

C3_FanOutCardinality ==
    (status = "done" /\ DistinctPaths) =>
        \A pass \in Passes :
            /\ \A s \in 1..SpecsOf(pass) :
                 /\ Cardinality(WrittenBy(pass, s)) = ItemCount(pass)
                 /\ \A i \in WrittenBy(pass, s) :
                      /\ trace[i].path \in DOMAIN fs
                      /\ fs[trace[i].path] = trace[i].content
            /\ \A i \in Events : trace[i].pass = pass => trace[i].spec \in 1..SpecsOf(pass)

\* a completed run with distinct paths in which every pass had two specs
\* over two items (three operations)
C3_Witness ==
    /\ status = "done" /\ DistinctPaths
    /\ \A pass \in Passes : SpecsOf(pass) = 2
    /\ Cardinality(WrittenBy("perModel", 2)) = 2
    /\ Cardinality(WrittenBy("perOperation", 2)) = 3
    /\ Cardinality(WrittenBy("perApi", 1)) = 2

\* ---------------------------------------------------------------------
\* C4 (as claimed): when the transform reports an error, the completion
\* callback is called with that error, no directory is created or cleaned
\* and no file is written: the output directory is as it was.
TransformFailed == trace # <<>> /\ trace[1].op = "transform" /\ ~trace[1].ok

C4_TransformFailure ==
    TransformFailed =>
        /\ Len(cb) = 1 /\ cb[1].error # "null"
        /\ \A i \in Events : trace[i].op \notin {"mkdirp", "rimraf", "mkdir", "write"}
        /\ fs \in {EmptyFs, JunkFiles(SubDir(config))}

\* ---------------------------------------------------------------------
\* C5 (as claimed): once creating or cleaning the output subdirectory,
\* creating a listed directory, reading a template or partial, rendering or
\* writing a file has failed, the run writes no further file, the callback
\* is called with the error and is never called with (null, true).
IoFailed(i) ==
    ~trace[i].ok /\ trace[i].op \in {"mkdirp", "rimraf", "mkdir", "read", "write"}

C5_FailFast ==
    \A i \in Events : IoFailed(i) =>
        /\ \A j \in Events : j > i => ~Wrote(j)
        /\ \A k \in 1..Len(cb) : cb[k].error # "null"
        /\ status # "running" => Len(cb) = 1

\* ---------------------------------------------------------------------
\* C6: the writes of the whole-output pass precede those of perApi, which
\* precede those of perPath, then perModel, then perOperation; within a pass
\* the specs are taken in configuration order and the items (for
\* perOperation: the APIs, then the operations of each) in collection order.
PassRank(pass) ==
    CASE pass = "transformations" -> 1
      [] pass = "perApi"          -> 2
      [] pass = "perPath"         -> 3
      [] pass = "perModel"        -> 4
      [] pass = "perOperation"    -> 5

RenderPasses == Passes \cup {"transformations"}

Rendered(i) == trace[i].op = "write" /\ trace[i].pass \in RenderPasses

LexLess(a, b) ==
    \E k \in 1..Len(a) : a[k] < b[k] /\ \A l \in 1..(k - 1) : a[l] = b[l]

Precedes(e1, e2) ==
    \/ PassRank(e1.pass) < PassRank(e2.pass)
    \/ /\ e1.pass = e2.pass
       /\ \/ e1.spec < e2.spec
          \/ e1.spec = e2.spec /\ LexLess(e1.item, e2.item)

C6_PassOrder ==
    \A i, j \in Events :
        (i < j /\ Rendered(i) /\ Rendered(j)) => Precedes(trace[i], trace[j])

\* a completed run in which the whole-output pass and every fan-out pass
\* wrote, each fan-out pass for two specs and at least two items
C6_Witness ==
    /\ status = "done"
    /\ \E i \in Events : Wrote(i) /\ trace[i].pass = "transformations"
    /\ \A pass \in Passes :
          Cardinality(WrittenBy(pass, 1)) >= 2 /\ Cardinality(WrittenBy(pass, 2)) >= 2

\* ---------------------------------------------------------------------
\* C7 (as claimed): creating the output subdirectory, cleaning it, creating
\* the listed directories and writing the LICENSE happen in that order, and
\* all four before any render pass, the whole-output pass included, writes.
LicenseWrites == {i \in Events : trace[i].op = "write" /\ trace[i].pass = "license"}

Ops(op) == {i \in Events : trace[i].op = op}

ListedDirs == {i \in Events : trace[i].op = "mkdir" /\ trace[i].pass = "directories"}

PreparedInOrder ==
    /\ \A i \in Ops("mkdirp") : \A j \in Ops("rimraf") : i < j
    /\ \A i \in Ops("rimraf") : \A j \in ListedDirs : i < j
    /\ \A i \in ListedDirs : \A j \in Ops("write") : i < j
    /\ \A j \in Ops("write") :
          \E b \in 1..(j - 1) : Is(b, "rimraf") /\ \E a \in 1..(b - 1) : Is(a, "mkdirp")

C7_PrepareBeforeRender ==
    /\ PreparedInOrder
    /\ \A j \in Events : Rendered(j) => \E i \in LicenseWrites : i < j

\* C7 (amended): creating the output subdirectory, cleaning it and creating
\* the listed directories happen in that order and before any file is
\* written; the LICENSE is written after the writes of the whole-output
\* pass and before any write of a fan-out pass.
C7_PrepareThenLicenseBeforeFanOut ==
    /\ PreparedInOrder
    /\ \A i \in LicenseWrites : \A j \in Events :
        /\ (Rendered(j) /\ trace[j].pass = "transformations") => j < i
        /\ (Rendered(j) /\ trace[j].pass \in Passes) => i < j
    /\ \A j \in Events :
        (Rendered(j) /\ trace[j].pass \in Passes) =>
            \E i \in LicenseWrites : i < j /\ trace[i].ok

\* a completed run that created a listed directory, rendered a whole-output
\* file, wrote the LICENSE and rendered a fan-out file
C7_Witness ==
    /\ status = "done"
    /\ \E i \in Events : Is(i, "mkdir") /\ trace[i].pass = "directories"
    /\ \E i \in Events : Wrote(i) /\ trace[i].pass = "transformations"
    /\ \E i \in Events : Wrote(i) /\ trace[i].pass = "license"
    /\ \E i \in Events : Wrote(i) /\ trace[i].pass = "perApi"

\* ---------------------------------------------------------------------
\* C8 (as claimed): when the touch step runs, the whole-output pass and
\* every configured fan-out pass have written their files.
C8_TouchAfterPasses ==
    \A i \in Events : trace[i].pass = "touch" =>
        \A pass \in Passes :
            \A s \in 1..SpecsOf(pass) :
                Cardinality({j \in WrittenBy(pass, s) : j < i}) = ItemCount(pass)

\* ---------------------------------------------------------------------
\* C9 (as claimed): with a touch template configured, a run in which no
\* other step fails completes, and every file of the rendered touch list
\* then exists: with the content last written to it if a pass wrote it,
\* empty if none did.
OnlyTouchFailed == \A i \in Events : ~trace[i].ok => trace[i].pass = "touch"

LastWrite(p) ==
    CHOOSE i \in Events :
        /\ Wrote(i) /\ trace[i].path = p
        /\ \A j \in Events : (Wrote(j) /\ trace[j].path = p) => j <= i

C9_TouchIdempotence ==
    (config.touch # Absent /\ status # "running" /\ OnlyTouchFailed) =>
        /\ status = "done"
        /\ \A f \in TouchFiles(Render(Get(config.touch), model)) :
            /\ Out(f) \in DOMAIN fs
            /\ fs[Out(f)] = IF \E i \in Events : Wrote(i) /\ trace[i].path = Out(f)
                            THEN trace[LastWrite(Out(f))].content
                            ELSE <<>>

\* ---------------------------------------------------------------------
\* C10 (as claimed): after every completed run, whatever passes are
\* configured, LICENSE holds the built-in Apache text when config.apache is
\* set and the built-in Unlicense text when it is not.
BuiltinLicense(apache) ==
    IF apache THEN BuiltinFiles[<<"templates", "/", "_common", "/", "LICENSE">>]
    ELSE BuiltinFiles[<<"templates", "/", "_common", "/", "UNLICENSE">>]

LicenseIsBuiltin ==
    /\ Out(<<"LICENSE">>) \in DOMAIN fs
    /\ fs[Out(<<"LICENSE">>)] = BuiltinLicense(config.apache)

C10_LicenseSelection == status = "done" => LicenseIsBuiltin

\* C10 (amended): after every completed run LICENSE exists, and it holds
\* the built-in text selected by config.apache, whatever templateDir is,
\* unless a fan-out pass rendered an output path LICENSE, which overwrites
\* it; a whole-output file or touch entry of that name does not.
FanOutWroteLicense ==
    \E i \in Events :
        Wrote(i) /\ trace[i].pass \in Passes /\ trace[i].path = Out(<<"LICENSE">>)

C10_LicenseUnlessFanOutOverwrites ==
    status = "done" =>
        /\ Out(<<"LICENSE">>) \in DOMAIN fs
        /\ ~FanOutWroteLicense => LicenseIsBuiltin

\* a completed run with a templateDir override and config.apache set, in
\* which no fan-out pass rendered a file LICENSE
C10_Witness ==
    /\ status = "done"
    /\ ~FanOutWroteLicense
    /\ config.templateDir # Absent
    /\ config.apache

\* ---------------------------------------------------------------------
\* C11 (as claimed): a configured fan-out pass whose source collection in
\* the model is absent or empty writes no file and raises no exception;
\* the passes that have items still write, and unless the environment makes
\* a call fail the run completes with callback(null, true).
Elems(opt) == IF opt = Absent THEN <<>> ELSE Get(opt)

OperationsOf(api) ==
    IF api.operations = Absent THEN Absent ELSE Get(api.operations).elems

NoSource(pass) ==
    CASE pass = "perApi"       -> Elems(Apis(o)) = <<>>
      [] pass = "perPath"      -> Elems(Paths(o)) = <<>>
      [] pass = "perModel"     -> o.models = Absent \/ Elems(Get(o.models).elems) = <<>>
      [] pass = "perOperation" ->
            \A a \in 1..Len(Elems(Apis(o))) :
                Elems(OperationsOf(Elems(Apis(o))[a])) = <<>>

C11_AbsentOrEmptySource ==
    \A pass \in Passes :
        (SpecsOf(pass) > 0 /\ NoSource(pass)) =>
            /\ \A i \in Events :
                  trace[i].pass = pass => trace[i].op \notin {"write", "throw"}
            /\ (status # "running" /\ ~EnvFaulted) =>
                  /\ status = "done"
                  /\ cb = <<[error |-> "null", success |-> TRUE]>>
                  /\ \A q \in Passes :
                        (SpecsOf(q) > 0 /\ ~NoSource(q)) => WrittenBy(q, 1) # {}

\* ---------------------------------------------------------------------
\* C12 (as claimed): whenever the run writes a file, the parent directory
\* of the target path exists, also when the rendered path names a directory
\* that config.directories does not list: no write ends the run for want of
\* its directory.
C12_ParentsEnsured ==
    (status = "crashed" /\ ~EnvFaulted) =>
        \A i \in Events :
            (Is(i, "write") /\ ~trace[i].ok) => Dirname(trace[i].path) \in dirs

\* ---------------------------------------------------------------------
\* C13: when two items of one fan-out pass render the same output path, the
\* second write does not fail for that reason, and once both are written
\* the path holds what was written to it last: the render of the item that
\* comes later in iteration order, or that of a still later write.
SamePath(i, j) ==
    /\ i < j
    /\ trace[i].pass = trace[j].pass /\ trace[i].pass \in Passes
    /\ trace[i].path = trace[j].path

C13_PathCollision ==
    \A i \in Ops("write") : \A j \in Ops("write") :
        (SamePath(i, j) /\ Wrote(i)) =>
            /\ Precedes(trace[i], trace[j])
            /\ ~trace[j].ok => CanWrite(trace[j].path, dirs)
            /\ trace[j].ok =>
                  /\ trace[j].path \in DOMAIN fs
                  /\ fs[trace[j].path] = trace[LastWrite(trace[j].path)].content
                  /\ (\A k \in Ops("write") : SamePath(j, k) => ~trace[k].ok) =>
                        fs[trace[j].path] = trace[j].content

\* a completed run in which the perPath pass rendered two paths of the
\* model to one output path, with different contents
C13_Witness ==
    /\ status = "done"
    /\ \E i \in Ops("write") : \E j \in Ops("write") :
          /\ SamePath(i, j) /\ trace[i].pass = "perPath"
          /\ Wrote(i) /\ Wrote(j)
          /\ trace[i].content # trace[j].content
          /\ fs[trace[j].path] = trace[j].content

\* ---------------------------------------------------------------------
\* C15 (as claimed): what a pass renders does not depend on the other
\* passes configured: every perOperation render sees the models collection
\* of the model the transform gave, as it does when no perModel spec is
\* configured, and every whole-output render sees that model.
C15_PassIndependence ==
    \A i \in Ops("write") :
        /\ trace[i].pass = "perOperation" =>
              /\ trace[i].ctx.models = o.models
              /\ trace[i].content =
                    Render(TemplateAt(tpl(config,
                               <<configName, Get(config.perOperation)[trace[i].spec].input>>)),
                           [Decorate(o, config) EXCEPT !.operations = trace[i].ctx.operations])
        /\ trace[i].pass = "transformations" => trace[i].ctx = Decorate(o, config)

\* ---------------------------------------------------------------------
\* C16 (as claimed): the context of every perModel render has as `models`
\* a list of one element, the current model item with the fields of the
\* spec's defaults overriding its own; that of every perOperation render
\* has as `operations` a list of one element, the current operation of the
\* current API; every other field is that of the whole model.
Overridden(item, defaults) ==
    [k \in (DOMAIN item) \cup (DOMAIN defaults) |->
        IF k \in DOMAIN defaults THEN defaults[k] ELSE item[k]]

WholeModel == Decorate(o, config)

SingleModel(e) ==
    LET pm == Get(config.perModel)[e.spec]
        item == Get(Get(o.models).elems)[e.item[1]]
        only == Get(Get(e.ctx.models).elems)
    IN /\ e.ctx.models # Absent /\ Get(e.ctx.models).arr /\ Len(only) = 1
       /\ only[1].scal = Overridden(item.scal, SpecDefaults(pm).scal)
       /\ e.ctx.scal = WholeModel.scal
       /\ e.ctx.apiInfo = WholeModel.apiInfo
       /\ e.ctx.operations = WholeModel.operations

SingleOperation(e) ==
    LET api == Get(Apis(o))[e.item[1]]
        operation == Get(Get(api.operations).elems)[e.item[2]]
    IN /\ e.ctx.operations = Some(Arr(<<operation>>))
       /\ e.ctx.scal = WholeModel.scal
       /\ e.ctx.apiInfo = WholeModel.apiInfo
       /\ e.ctx.models = WholeModel.models

C16_SingleItemView ==
    \A i \in Ops("write") :
        /\ trace[i].pass = "perModel" => SingleModel(trace[i])
        /\ trace[i].pass = "perOperation" => SingleOperation(trace[i])

\* ---------------------------------------------------------------------
\* C17: the context of every perApi and perPath render has no apiInfo; the
\* model itself keeps the apiInfo the transform gave it, and a completed run
\* has rendered, for every perApi spec, every API and, for every perPath
\* spec, every path.
C17_NoBackReference ==
    /\ \A i \in Ops("write") :
          trace[i].pass \in {"perApi", "perPath"} => trace[i].ctx.apiInfo = Absent
    /\ pc \notin {"main", "transform"} => model.apiInfo = o.apiInfo
    /\ status = "done" =>
          \A pass \in {"perApi", "perPath"} : \A s \in 1..SpecsOf(pass) :
              {trace[i].item : i \in WrittenBy(pass, s)} =
                  {<<n>> : n \in 1..ItemCount(pass)}

\* a completed run in which perApi and perPath rendered two items each of a
\* model that has apiInfo
C17_Witness ==
    /\ status = "done"
    /\ model.apiInfo # Absent
    /\ \A pass \in {"perApi", "perPath"} :
          /\ Cardinality(WrittenBy(pass, 1)) = 2
          /\ \A i \in WrittenBy(pass, 1) : trace[i].ctx.apiInfo = Absent

\* ---------------------------------------------------------------------
\* C18 (as claimed): when the run has completed, the configuration object
\* has exactly the fields and values it was passed with, config.defaults
\* and every entry of config.transformations included.
C18_ConfigUnmodified ==
    status = "done" =>
        /\ config.defaults = invocations[run].config.defaults
        /\ config.transformations = invocations[run].config.transformations
        /\ config = invocations[run].config

\* ---------------------------------------------------------------------
\* C14 (as claimed): two calls of main in one process with the same raw
\* model, configuration and run name, in neither of which the environment
\* made a call fail, end alike, whatever calls came between them: both
\* complete, with the same callback outcome and the same files (paths and
\* contents) in the run's output subdirectory.
Tree(files) ==
    [p \in {q \in DOMAIN files : Inside(q, SubDir(config))} |-> files[p]]

Earlier == 1..Len(ended)

Ended == status # "running" /\ ~EnvFaulted

C14_Determinism ==
    \A k \in Earlier :
        (Ended /\ ~ended[k].faulted /\ invocations[k] = invocations[run]) =>
            /\ status = "done"
            /\ cb = ended[k].cb
            /\ Tree(fs) = Tree(ended[k].fs)

\* ---------------------------------------------------------------------
\* C19 (as claimed): a call of main with defaults.verbose set ends as the
\* call with the same raw model, run name and configuration but without
\* verbose did, with a generator configured or not: it completes, with the
\* same callback outcome and the same files.
Quiet(inv) ==
    [inv EXCEPT !.config.defaults.scal =
        [k \in (DOMAIN inv.config.defaults.scal) \ {"verbose"} |->
            inv.config.defaults.scal[k]]]

C19_VerboseTracingOnly ==
    \A k \in Earlier :
        (/\ Ended /\ ~ended[k].faulted
         /\ Truthy(invocations[run].config.defaults, "verbose")
         /\ ~Truthy(invocations[k].config.defaults, "verbose")
         /\ Quiet(invocations[run]) = invocations[k]) =>
            /\ status = "done"
            /\ cb = ended[k].cb
            /\ Tree(fs) = Tree(ended[k].fs)

\* ---------------------------------------------------------------------
\* C20 (as claimed): with defaults.flat the run's subdirectory is outputDir
\* itself, and when the second of two successive flat calls with different
\* run names has completed, every file that the first left in outputDir and
\* that the second did not write is absent.
FlatCall(k) == Truthy(invocations[k].config.defaults, "flat")

C20_FlatCleanScope ==
    /\ Truthy(config.defaults, "flat") => SubDir(config) = <<>>
    /\ (/\ run > 1 /\ status = "done"
        /\ FlatCall(run - 1) /\ FlatCall(run)
        /\ invocations[run - 1].configName # invocations[run].configName) =>
            \A p \in DOMAIN ended[run - 1].fs :
                p \in DOMAIN fs => \E i \in Ops("write") : Wrote(i) /\ trace[i].path = p

====
